---- MODULE Spec2Model ----
(***************************************************************************)
(* Beckn/ONDC HTTP signatures: BuildSignature, VerifySignature and         *)
(* parseAuthorization of package beckn, and handleSearch of the search     *)
(* receiver.                                                               *)
(*                                                                         *)
(* Text is a sequence of one-character strings, a byte string a sequence   *)
(* of numbers 0..255.  The Go library calls are modelled by what they do:  *)
(* base64 is the standard padded codec, %d and ParseInt are decimal        *)
(* formatting and parsing, the strings functions split and trim.  SHA-256  *)
(* and Ed25519 are idealised: Sum256 is a collision-free map to 32 bytes   *)
(* on the payloads of the model, and a signature verifies under a public   *)
(* key exactly when a private key made of a seed deriving that public key  *)
(* and of that public key produced it over the same message.               *)
(***************************************************************************)
EXTENDS Integers, Sequences, FiniteSets, TLC

\* ------------------------------------------------------------------ text

\* the printable characters of codes 32..95 and of codes 97..126
AsciiLow ==
  <<" ", "!", "\"", "#", "$", "%", "&", "'", "(", ")", "*", "+", ",", "-", ".", "/",
    "0", "1", "2", "3", "4", "5", "6", "7", "8", "9", ":", ";", "<", "=", ">", "?",
    "@", "A", "B", "C", "D", "E", "F", "G", "H", "I", "J", "K", "L", "M", "N", "O",
    "P", "Q", "R", "S", "T", "U", "V", "W", "X", "Y", "Z", "[", "\\", "]", "^", "_">>

AsciiHigh ==
  <<"a", "b", "c", "d", "e", "f", "g", "h", "i", "j", "k", "l", "m", "n", "o",
    "p", "q", "r", "s", "t", "u", "v", "w", "x", "y", "z", "{", "|", "}", "~">>

AsciiCode ==
  [c \in {AsciiLow[i] : i \in 1..Len(AsciiLow)} \cup {AsciiHigh[i] : i \in 1..Len(AsciiHigh)} |->
      IF \E i \in 1..Len(AsciiLow) : AsciiLow[i] = c
      THEN 31 + (CHOOSE i \in 1..Len(AsciiLow) : AsciiLow[i] = c)
      ELSE 96 + (CHOOSE i \in 1..Len(AsciiHigh) : AsciiHigh[i] = c)]

\* []byte(s): the bytes of a text
ByteOf(c) == IF c = "\n" THEN 10 ELSE IF c = "\t" THEN 9 ELSE IF c = "\r" THEN 13
             ELSE AsciiCode[c]

Bytes(s) == [i \in 1..Len(s) |-> ByteOf(s[i])]

Digits == <<"0", "1", "2", "3", "4", "5", "6", "7", "8", "9">>

DigitValue == [c \in {Digits[i] : i \in 1..10} |-> (CHOOSE i \in 1..10 : Digits[i] = c) - 1]

\* %d of fmt on a non-negative number
RECURSIVE FormatNat(_)
FormatNat(n) ==
  IF n < 10 THEN <<Digits[n + 1]>> ELSE FormatNat(n \div 10) \o <<Digits[(n % 10) + 1]>>

\* %d of fmt
FormatInt(n) == IF n < 0 THEN <<"-">> \o FormatNat(-n) ELSE FormatNat(n)

RECURSIVE ParseDigits(_, _, _)
ParseDigits(s, i, acc) ==
  IF i > Len(s) THEN [ok |-> TRUE, val |-> acc]
  ELSE IF s[i] \notin DOMAIN DigitValue THEN [ok |-> FALSE, val |-> 0]
  ELSE ParseDigits(s, i + 1, acc * 10 + DigitValue[s[i]])

\* strconv.ParseInt(s, 10, 64): an optional sign, then one or more decimal digits
ParseInt(s) ==
  LET signed == Len(s) > 0 /\ s[1] \in {"+", "-"}
      first  == IF signed THEN 2 ELSE 1
      mag    == ParseDigits(s, first, 0)
  IN  IF first > Len(s) \/ ~mag.ok THEN [ok |-> FALSE, val |-> 0]
      ELSE [ok |-> TRUE, val |-> IF signed /\ s[1] = "-" THEN -mag.val ELSE mag.val]

\* strings.HasPrefix
HasPrefix(s, p) == Len(s) >= Len(p) /\ SubSeq(s, 1, Len(p)) = p

\* strings.TrimPrefix
TrimPrefix(s, p) == IF HasPrefix(s, p) THEN SubSeq(s, Len(p) + 1, Len(s)) ELSE s

RECURSIVE SplitAt(_, _, _)
SplitAt(s, cuts, start) ==
  IF cuts = {} THEN <<SubSeq(s, start, Len(s))>>
  ELSE LET c == CHOOSE x \in cuts : \A y \in cuts : x <= y
       IN  <<SubSeq(s, start, c - 1)>> \o SplitAt(s, cuts \ {c}, c + 1)

\* strings.Split(s, sep) for a one-character separator
Split(s, sep) == SplitAt(s, {i \in 1..Len(s) : s[i] = sep}, 1)

RECURSIVE SkipLeft(_, _, _)
SkipLeft(s, cut, i) == IF i <= Len(s) /\ s[i] \in cut THEN SkipLeft(s, cut, i + 1) ELSE i

RECURSIVE SkipRight(_, _, _, _)
SkipRight(s, cut, lo, j) ==
  IF j >= lo /\ s[j] \in cut THEN SkipRight(s, cut, lo, j - 1) ELSE j

\* strings.Trim(s, cutset)
Trim(s, cut) ==
  LET lo == SkipLeft(s, cut, 1)
      hi == SkipRight(s, cut, lo, Len(s))
  IN  SubSeq(s, lo, hi)

WhiteSpace == {" ", "\t", "\n", "\r"}

\* strings.TrimSpace
TrimSpace(s) == Trim(s, WhiteSpace)

RECURSIVE IndexFrom(_, _, _)
IndexFrom(s, c, i) ==
  IF i > Len(s) THEN 0 ELSE IF s[i] = c THEN i ELSE IndexFrom(s, c, i + 1)

\* strings.SplitN(s, sep, 2) for a one-character separator
SplitN2(s, sep) ==
  LET i == IndexFrom(s, sep, 1)
  IN  IF i = 0 THEN <<s>> ELSE <<SubSeq(s, 1, i - 1), SubSeq(s, i + 1, Len(s))>>

\* ---------------------------------------------------------------- base64

B64Alphabet ==
  <<"A", "B", "C", "D", "E", "F", "G", "H", "I", "J", "K", "L", "M", "N", "O", "P",
    "Q", "R", "S", "T", "U", "V", "W", "X", "Y", "Z", "a", "b", "c", "d", "e", "f",
    "g", "h", "i", "j", "k", "l", "m", "n", "o", "p", "q", "r", "s", "t", "u", "v",
    "w", "x", "y", "z", "0", "1", "2", "3", "4", "5", "6", "7", "8", "9", "+", "/">>

B64Value ==
  [c \in {B64Alphabet[i] : i \in 1..64} |-> (CHOOSE i \in 1..64 : B64Alphabet[i] = c) - 1]

ByteAt(b, i) == IF i <= Len(b) THEN b[i] ELSE 0

\* base64.StdEncoding.EncodeToString
Base64Encode(b) ==
  LET n      == Len(b)
      groups == (n + 2) \div 3
      Quad(g) == ByteAt(b, 3 * g + 1) * 65536 + ByteAt(b, 3 * g + 2) * 256 + ByteAt(b, 3 * g + 3)
      Char(k) ==
        LET g == (k - 1) \div 4
            j == (k - 1) % 4
        IN  IF (j = 2 /\ 3 * g + 2 > n) \/ (j = 3 /\ 3 * g + 3 > n) THEN "="
            ELSE B64Alphabet[((Quad(g) \div (64 ^ (3 - j))) % 64) + 1]
  IN  [k \in 1..(4 * groups) |-> Char(k)]

\* base64.StdEncoding.DecodeString: CR and LF are skipped, the rest is whole
\* quadruples of alphabet characters, the last one padded with one or two "="
Base64Decode(text) ==
  LET s    == IF \E i \in 1..Len(text) : text[i] \in {"\r", "\n"}
              THEN SelectSeq(text, LAMBDA c : c \notin {"\r", "\n"}) ELSE text
      n    == Len(s)
      pad  == IF n >= 2 /\ s[n] = "=" /\ s[n - 1] = "=" THEN 2
              ELSE IF n >= 1 /\ s[n] = "=" THEN 1 ELSE 0
      good == /\ n % 4 = 0
              /\ \A i \in 1..(n - pad) : s[i] \in DOMAIN B64Value
      Val(i)  == IF s[i] = "=" THEN 0 ELSE B64Value[s[i]]
      Quad(g) == Val(4 * g + 1) * 262144 + Val(4 * g + 2) * 4096 + Val(4 * g + 3) * 64 + Val(4 * g + 4)
      outLen  == (n \div 4) * 3 - pad
  IN  IF ~good THEN [ok |-> FALSE, bytes |-> <<>>]
      ELSE [ok |-> TRUE,
            bytes |-> [k \in 1..outLen |->
                         (Quad((k - 1) \div 3) \div (256 ^ (2 - ((k - 1) % 3)))) % 256]]

\* ---------------------------------------------------- SHA-256 and Ed25519

HashSize == 32
SeedSize == 32
PublicKeySize == 32
PrivateKeySize == 64
SignatureSize == 64

\* sha256.Sum256, idealised: 32 bytes, no two payloads of the model collide
Sum256(body) ==
  [i \in 1..HashSize |-> (ByteAt(body, i) * 5 + 11 * i + Len(body)) % 256]

\* the public key Ed25519 derives from a seed, idealised: one-to-one, and never
\* the seed itself
PublicFromSeed(seed) ==
  [i \in 1..PublicKeySize |-> (seed[i] * 3 + 7 + i) % 256]

\* ed25519.NewKeyFromSeed: the seed followed by the public key it derives
NewKeyFromSeed(seed) == seed \o PublicFromSeed(seed)

\* ed25519.PrivateKey.Public: the last 32 bytes of the private key
Public(priv) == SubSeq(priv, SeedSize + 1, PrivateKeySize)

RECURSIVE FoldLane(_, _, _)
FoldLane(msg, i, w) ==
  IF i > Len(msg) THEN 0 ELSE (w * msg[i] + FoldLane(msg, i + HashSize, w + 2)) % 256

\* the hash Ed25519 takes of the message, idealised as 32 positional checksums
MsgHash(msg) == [j \in 1..HashSize |-> (FoldLane(msg, j, 1) + Len(msg)) % 256]

\* the signature over msg of the key whose seed derives the point derived and
\* whose stored public half is stored
SigOver(derived, stored, msg) ==
  LET h == MsgHash(msg)
  IN  [i \in 1..HashSize |-> (derived[i] + h[i]) % 256]
      \o [i \in 1..HashSize |-> (stored[i] + 2 * h[i] + 1) % 256]

\* ed25519.Sign: deterministic in the private key and the message
Ed25519Sign(priv, msg) ==
  SigOver(PublicFromSeed(SubSeq(priv, 1, SeedSize)), Public(priv), msg)

\* ed25519.Verify
Ed25519Verify(pub, msg, sig) ==
  Len(sig) = SignatureSize /\ sig = SigOver(pub, pub, msg)

\* ------------------------------------------------------- package beckn

OK == "ok"

SignaturePrefix == <<"S", "i", "g", "n", "a", "t", "u", "r", "e", " ">>
DigestPrefix == <<"S", "H", "A", "-", "2", "5", "6", "=">>
AlgEd25519 == <<"e", "d", "2", "5", "5", "1", "9">>
HeadersList ==
  <<"(", "c", "r", "e", "a", "t", "e", "d", ")", " ", "(", "e", "x", "p", "i", "r", "e", "s", ")",
    " ", "d", "i", "g", "e", "s", "t">>
KKeyId == <<"k", "e", "y", "I", "d">>
KAlgorithm == <<"a", "l", "g", "o", "r", "i", "t", "h", "m">>
KCreated == <<"c", "r", "e", "a", "t", "e", "d">>
KExpires == <<"e", "x", "p", "i", "r", "e", "s">>
KHeaders == <<"h", "e", "a", "d", "e", "r", "s">>
KSignature == <<"s", "i", "g", "n", "a", "t", "u", "r", "e">>

\* "SHA-256=" + base64.StdEncoding.EncodeToString(sha256.Sum256(body))
DigestOf(body) == DigestPrefix \o Base64Encode(Sum256(body))

\* "(created): %d\n(expires): %d\ndigest: %s"
SigningString(created, expires, digest) ==
  <<"(", "c", "r", "e", "a", "t", "e", "d", ")", ":", " ">> \o FormatInt(created)
  \o <<"\n", "(", "e", "x", "p", "i", "r", "e", "s", ")", ":", " ">> \o FormatInt(expires)
  \o <<"\n", "d", "i", "g", "e", "s", "t", ":", " ">> \o digest

\* key="value"
Quoted(key, value) == key \o <<"=", "\"">> \o value \o <<"\"">>

\* the Authorization value BuildSignature formats
FormatAuthorization(keyID, created, expires, encodedSig) ==
  SignaturePrefix \o Quoted(KKeyId, keyID)
  \o <<",", " ">> \o Quoted(KAlgorithm, AlgEd25519)
  \o <<",", " ">> \o Quoted(KCreated, FormatInt(created))
  \o <<",", " ">> \o Quoted(KExpires, FormatInt(expires))
  \o <<",", " ">> \o Quoted(KHeaders, HeadersList)
  \o <<",", " ">> \o Quoted(KSignature, encodedSig)

\* TimingInvalid without the comparison of expires with created
TimingInvalidUnordered(created, expires) == created <= 0 \/ expires <= 0

\* the combined check of the validity window BuildSignature makes
TimingInvalid(created, expires) == created <= 0 \/ expires <= 0 \/ expires <= created

\* PrivateKeyFrom taking the seed of a 64-byte key from its last 32 bytes
PrivateKeyFromLastHalf(pkBytes) ==
  IF Len(pkBytes) = SeedSize THEN [ok |-> TRUE, key |-> NewKeyFromSeed(pkBytes)]
  ELSE IF Len(pkBytes) = PrivateKeySize
  THEN [ok |-> TRUE, key |-> NewKeyFromSeed(SubSeq(pkBytes, SeedSize + 1, PrivateKeySize))]
  ELSE [ok |-> FALSE, key |-> <<>>]

\* the switch on the decoded length of the private key
PrivateKeyFrom(pkBytes) ==
  IF Len(pkBytes) = SeedSize THEN [ok |-> TRUE, key |-> NewKeyFromSeed(pkBytes)]
  ELSE IF Len(pkBytes) = PrivateKeySize THEN [ok |-> TRUE, key |-> pkBytes]
  ELSE [ok |-> FALSE, key |-> <<>>]

Failed(e) == [err |-> e, Authorization |-> <<>>, Digest |-> <<>>]

BuildSignature(body, keyID, privateKeyBase64, created, expires) ==
  IF keyID = <<>> THEN Failed("keyID is required for signature")
  ELSE IF TimingInvalid(created, expires)
  THEN Failed("created and expires must be positive with expires > created")
  ELSE
    LET digest  == DigestOf(body)
        pkBytes == Base64Decode(privateKeyBase64)
        priv    == PrivateKeyFrom(pkBytes.bytes)
    IN  IF ~pkBytes.ok THEN Failed("decode private key")
        ELSE IF ~priv.ok THEN Failed("unexpected private key length")
        ELSE
          LET signingString == SigningString(created, expires, digest)
              signature     == Ed25519Sign(priv.key, Bytes(signingString))
              encodedSig    == Base64Encode(signature)
          IN  [err |-> OK,
               Authorization |-> FormatAuthorization(keyID, created, expires, encodedSig),
               Digest |-> digest]

\* a lookup in the map of parameters: the empty text for a key that is not set
Get(m, k) == IF k \in DOMAIN m THEN m[k] ELSE <<>>

Put(m, k, v) == [x \in DOMAIN m \cup {k} |-> IF x = k THEN v ELSE m[x]]

EmptyMap == [x \in {} |-> <<>>]

Required == <<KKeyId, KAlgorithm, KCreated, KExpires, KHeaders, KSignature>>

MissingError(key) ==
  CASE key = KKeyId     -> "missing keyId in authorization"
    [] key = KAlgorithm -> "missing algorithm in authorization"
    [] key = KCreated   -> "missing created in authorization"
    [] key = KExpires   -> "missing expires in authorization"
    [] key = KHeaders   -> "missing headers in authorization"
    [] key = KSignature -> "missing signature in authorization"

\* ParseParams passing over a fragment without "=" where the code returns
RECURSIVE ParseParamsSkipBad(_, _, _)
ParseParamsSkipBad(params, i, result) ==
  IF i > Len(params) THEN [err |-> OK, params |-> result]
  ELSE LET pieces == SplitN2(TrimSpace(params[i]), "=")
       IN  IF Len(pieces) # 2 THEN ParseParamsSkipBad(params, i + 1, result)
           ELSE ParseParamsSkipBad(params, i + 1, Put(result, pieces[1], Trim(pieces[2], {"\""})))

\* the loop over the comma-separated fragments
RECURSIVE ParseParams(_, _, _)
ParseParams(params, i, result) ==
  IF i > Len(params) THEN [err |-> OK, params |-> result]
  ELSE LET pieces == SplitN2(TrimSpace(params[i]), "=")
       IN  IF Len(pieces) # 2 THEN [err |-> "invalid param", params |-> EmptyMap]
           ELSE ParseParams(params, i + 1, Put(result, pieces[1], Trim(pieces[2], {"\""})))

\* the loop over the required keys
RECURSIVE FirstMissing(_, _)
FirstMissing(result, i) ==
  IF i > Len(Required) THEN 0
  ELSE IF Get(result, Required[i]) = <<>> THEN i ELSE FirstMissing(result, i + 1)

parseAuthorization(auth) ==
  IF ~HasPrefix(auth, SignaturePrefix)
  THEN [err |-> "unexpected scheme in authorization", params |-> EmptyMap]
  ELSE LET parsed == ParseParams(Split(TrimPrefix(auth, SignaturePrefix), ","), 1, EmptyMap)
           miss   == FirstMissing(parsed.params, 1)
       IN  IF parsed.err # OK THEN parsed
           ELSE IF miss # 0 THEN [err |-> MissingError(Required[miss]), params |-> EmptyMap]
           ELSE parsed

\* CheckParams without the check of the algorithm
CheckParamsAnyAlgorithm(params, opts) ==
  IF opts.ExpectedKeyID # <<>> /\ Get(params, KKeyId) # opts.ExpectedKeyID THEN "unexpected keyId"
  ELSE IF Get(params, KHeaders) # HeadersList THEN "unexpected headers list"
  ELSE OK

\* the checks of keyId, algorithm and headers list
CheckParams(params, opts) ==
  IF opts.ExpectedKeyID # <<>> /\ Get(params, KKeyId) # opts.ExpectedKeyID THEN "unexpected keyId"
  ELSE IF Get(params, KAlgorithm) # AlgEd25519 THEN "unsupported algorithm"
  ELSE IF Get(params, KHeaders) # HeadersList THEN "unexpected headers list"
  ELSE OK

\* now := time.Now().Unix(), overridden by opts.Now when it is set; opts.Now is
\* <<>> for nil and <<t>> for a function that returns t
NowOf(opts, clock) == IF opts.Now = <<>> THEN clock ELSE opts.Now[1]

\* CheckWindow without the check of expires
CheckWindowNoExpiry(now, created, expires) ==
  IF now < created THEN "signature not yet valid"
  ELSE OK

\* the two checks of now against the window
CheckWindow(now, created, expires) ==
  IF now < created THEN "signature not yet valid"
  ELSE IF now > expires THEN "signature expired"
  ELSE OK

\* the switch on the decoded length of the public key
PublicKeyFrom(publicKeyBytes) ==
  IF Len(publicKeyBytes) = PublicKeySize THEN [ok |-> TRUE, key |-> publicKeyBytes]
  ELSE IF Len(publicKeyBytes) = PrivateKeySize THEN [ok |-> TRUE, key |-> Public(publicKeyBytes)]
  ELSE [ok |-> FALSE, key |-> <<>>]

\* What a call of VerifySignature returns and did: err is the error (OK for nil);
\* signingString is the string of line 149 once it is built; direct and seed say
\* whether ed25519.Verify was called with the key as given and with the key derived
\* from it as a seed, and what it answered.
Outcome(e, s, d, r) == [err |-> e, signingString |-> s, direct |-> d, seed |-> r]

Rejected(e) == Outcome(e, <<>>, "skipped", "skipped")

\* VerifyWithRetry retrying with the first 32 bytes as a seed whatever the length
VerifyRetryAnyLength(publicKey, publicKeyBytes, keyLen, signingString, signatureBytes) ==
  IF Ed25519Verify(publicKey, Bytes(signingString), signatureBytes)
  THEN Outcome(OK, signingString, "ok", "skipped")
  ELSE IF Ed25519Verify(PublicFromSeed(publicKeyBytes), Bytes(signingString), signatureBytes)
       THEN Outcome(OK, signingString, "failed", "ok")
       ELSE Outcome("signature verification failed", signingString, "failed", "failed")

\* ed25519.Verify with the key as given, then the retry with the key as a seed
VerifyWithRetry(publicKey, publicKeyBytes, keyLen, signingString, signatureBytes) ==
  IF Ed25519Verify(publicKey, Bytes(signingString), signatureBytes)
  THEN Outcome(OK, signingString, "ok", "skipped")
  ELSE IF keyLen = PublicKeySize
  THEN IF Ed25519Verify(Public(NewKeyFromSeed(publicKeyBytes)), Bytes(signingString), signatureBytes)
       THEN Outcome(OK, signingString, "failed", "ok")
       ELSE Outcome("signature verification failed", signingString, "failed", "failed")
  ELSE Outcome("signature verification failed", signingString, "failed", "skipped")

\* lines 132..168: the public key, the signing string, the signature
VerifyKeyAndSignature(digestHeader, params, publicKeyBase64, created, expires) ==
  LET publicKeyBytes == Base64Decode(publicKeyBase64)
      publicKey      == PublicKeyFrom(publicKeyBytes.bytes)
      signingString  == SigningString(created, expires, digestHeader)
      signatureBytes == Base64Decode(Get(params, KSignature))
  IN  IF ~publicKeyBytes.ok THEN Rejected("decode public key")
      ELSE IF ~publicKey.ok THEN Rejected("unexpected public key length")
      ELSE IF ~signatureBytes.ok
      THEN Outcome("decode signature", signingString, "skipped", "skipped")
      ELSE VerifyWithRetry(publicKey.key, publicKeyBytes.bytes, Len(publicKeyBytes.bytes),
                           signingString, signatureBytes.bytes)

\* VerifyDigestAndWindow comparing the digest after the window, not before
VerifyWindowBeforeDigest(body, digestHeader, params, publicKeyBase64, opts, clock) ==
  LET created == ParseInt(Get(params, KCreated))
      expires == ParseInt(Get(params, KExpires))
      window  == CheckWindow(NowOf(opts, clock), created.val, expires.val)
  IN  IF ~created.ok THEN Rejected("invalid created timestamp")
      ELSE IF ~expires.ok THEN Rejected("invalid expires timestamp")
      ELSE IF window # OK THEN Rejected(window)
      ELSE IF digestHeader # DigestOf(body) THEN Rejected("digest mismatch")
      ELSE VerifyKeyAndSignature(digestHeader, params, publicKeyBase64, created.val, expires.val)

\* VerifyDigestAndWindow validating the signature over the received Digest header
\* before it reports a digest mismatch
VerifyThenReportDigest(body, digestHeader, params, publicKeyBase64, opts, clock) ==
  LET created == ParseInt(Get(params, KCreated))
      expires == ParseInt(Get(params, KExpires))
      window  == CheckWindow(NowOf(opts, clock), created.val, expires.val)
      checked == VerifyKeyAndSignature(digestHeader, params, publicKeyBase64,
                                       created.val, expires.val)
  IN  IF digestHeader # DigestOf(body)
      THEN IF created.ok /\ expires.ok /\ window = OK
           THEN Outcome("digest mismatch", checked.signingString, checked.direct, checked.seed)
           ELSE Rejected("digest mismatch")
      ELSE IF ~created.ok THEN Rejected("invalid created timestamp")
      ELSE IF ~expires.ok THEN Rejected("invalid expires timestamp")
      ELSE IF window # OK THEN Rejected(window)
      ELSE checked

\* lines 107..130: the digest, the timestamps, the window
VerifyDigestAndWindow(body, digestHeader, params, publicKeyBase64, opts, clock) ==
  LET created == ParseInt(Get(params, KCreated))
      expires == ParseInt(Get(params, KExpires))
      window  == CheckWindow(NowOf(opts, clock), created.val, expires.val)
  IN  IF digestHeader # DigestOf(body) THEN Rejected("digest mismatch")
      ELSE IF ~created.ok THEN Rejected("invalid created timestamp")
      ELSE IF ~expires.ok THEN Rejected("invalid expires timestamp")
      ELSE IF window # OK THEN Rejected(window)
      ELSE VerifyKeyAndSignature(digestHeader, params, publicKeyBase64, created.val, expires.val)

\* clock is what time.Now().Unix() reads during the call
VerifySignature(body, digestHeader, authorizationHeader, publicKeyBase64, opts, clock) ==
  IF authorizationHeader = <<>> THEN Rejected("missing Authorization header")
  ELSE IF digestHeader = <<>> THEN Rejected("missing Digest header")
  ELSE IF publicKeyBase64 = <<>> THEN Rejected("public key is required for verification")
  ELSE
    LET parsed == parseAuthorization(authorizationHeader)
        policy == CheckParams(parsed.params, opts)
    IN  IF parsed.err # OK THEN Rejected(parsed.err)
        ELSE IF policy # OK THEN Rejected(policy)
        ELSE VerifyDigestAndWindow(body, digestHeader, parsed.params, publicKeyBase64, opts, clock)

\* ------------------------------------------------- the search receiver

StatusOK == 200
StatusBadRequest == 400

\* json.NewDecoder(r.Body).Decode(&payload): whether the body starts with a JSON
\* value, for the values the payloads of the model can hold: {}, [] and digits
JSONDecodes(body) ==
  LET i == SkipLeft(body, {32, 9, 10, 13}, 1)
  IN  /\ i <= Len(body)
      /\ \/ body[i] \in 48..57
         \/ i < Len(body) /\ body[i] = 123 /\ body[i + 1] = 125
         \/ i < Len(body) /\ body[i] = 91 /\ body[i + 1] = 93

\* handleSearch: the request is [body, Digest, Authorization], a header that is
\* not set being the empty text
handleSearch(r) ==
  IF ~JSONDecodes(r.body) THEN [status |-> StatusBadRequest, body |-> "invalid JSON"]
  ELSE [status |-> StatusOK, body |-> "{\"status\":\"ack\"}"]

\* ------------------------------------------------------------ the inputs

\* the window of a request lies in T0..T0+Span, the clock in T0-1..T0+Span+1
T0 == 9
Span == 2

SeedA == [i \in 1..SeedSize |-> (7 * i + 3) % 256]
SeedB == [i \in 1..SeedSize |-> (11 * i + 5) % 256]

SeedTextA == Base64Encode(SeedA)
PrivTextA == Base64Encode(NewKeyFromSeed(SeedA))
PubTextA  == Base64Encode(PublicFromSeed(SeedA))
SeedTextB == Base64Encode(SeedB)
PrivTextB == Base64Encode(NewKeyFromSeed(SeedB))
PubTextB  == Base64Encode(PublicFromSeed(SeedB))
NotBase64 == <<"!", "!", "!", "!">>
ShortKey  == <<"A", "A", "A", "A">>

\* {} and two other payloads
BodyObject == <<123, 125>>
Bodies == {BodyObject, <<123>>, <<>>}

KeyIdPlain == <<"b", "|", "1">>
KeyIdComma == <<"a", ",", "b">>
KeyIdQuote == <<"\"", "q">>
KeyIdSpace == <<" ", "w", " ">>
KeyIDs == {<<>>, KeyIdPlain, KeyIdComma, KeyIdQuote, KeyIdSpace}

PrivateKeyTexts == {SeedTextA, PrivTextA, SeedTextB, <<>>, NotBase64, ShortKey}
PublicKeyTexts == {PubTextA, SeedTextA, PrivTextA, PubTextB, PrivTextB, <<>>, NotBase64, ShortKey}

\* the base64 text of the signature at the end of an Authorization value that
\* BuildSignature returned
EncodedSignature(authorization) ==
  SubSeq(authorization, Len(authorization) - 4 * ((SignatureSize + 2) \div 3),
         Len(authorization) - 1)

\* the six parameters BuildSignature writes, in its order
BuiltParams(keyID, created, expires, encodedSig) ==
  <<Quoted(KKeyId, keyID), Quoted(KAlgorithm, AlgEd25519), Quoted(KCreated, FormatInt(created)),
    Quoted(KExpires, FormatInt(expires)), Quoted(KHeaders, HeadersList),
    Quoted(KSignature, encodedSig)>>

RECURSIVE JoinFrom(_, _)
JoinFrom(fragments, i) ==
  IF i > Len(fragments) THEN <<>>
  ELSE (IF i > 1 THEN <<",", " ">> ELSE <<>>) \o fragments[i] \o JoinFrom(fragments, i + 1)

\* an Authorization value of the fragments
Join(fragments) == SignaturePrefix \o JoinFrom(fragments, 1)

KeyIndex(key) == CHOOSE i \in 1..Len(Required) : Required[i] = key

\* the ways an Authorization value is rewritten on the way to the receiver
HeaderKinds ==
  {<<"built">>, <<"empty">>, <<"no scheme">>, <<"bad fragment">>, <<"rsa">>, <<"other headers">>,
   <<"created not a number">>, <<"expires not a number">>, <<"signature not base64">>,
   <<"signature short">>, <<"signature of another key">>, <<"unquoted">>,
   <<"rsa, bad fragment">>, <<"trailing comma">>, <<"padded">>,
   <<"window reversed">>, <<"window reversed, signature kept">>}
  \cup {<<"drop", Required[i]>> : i \in 1..Len(Required)}
  \cup {<<"blank", Required[i]>> : i \in 1..Len(Required)}

Craft(kind, keyID, created, expires, encodedSig) ==
  LET built == BuiltParams(keyID, created, expires, encodedSig)
      With(key, fragment) == [built EXCEPT ![KeyIndex(key)] = fragment]
      otherSig == Ed25519Sign(NewKeyFromSeed(SeedB),
                              Bytes(SigningString(created, expires, DigestOf(BodyObject))))
      reversed == [built EXCEPT ![KeyIndex(KCreated)] = Quoted(KCreated, FormatInt(expires)),
                                ![KeyIndex(KExpires)] = Quoted(KExpires, FormatInt(created))]
      reversedSig == Ed25519Sign(NewKeyFromSeed(SeedA),
                                 Bytes(SigningString(expires, created, DigestOf(BodyObject))))
  IN  CASE kind = <<"built">> -> Join(built)
        [] kind = <<"empty">> -> <<>>
        [] kind = <<"no scheme">> -> JoinFrom(built, 1)
        [] kind = <<"bad fragment">> -> Join(built \o <<<<"x">>>>)
        [] kind = <<"rsa">> -> Join(With(KAlgorithm, Quoted(KAlgorithm, <<"r", "s", "a">>)))
        [] kind = <<"other headers">> ->
             Join(With(KHeaders, Quoted(KHeaders, <<"d", "i", "g", "e", "s", "t">>)))
        [] kind = <<"created not a number">> ->
             Join(With(KCreated, Quoted(KCreated, <<"x">> \o FormatInt(created))))
        [] kind = <<"expires not a number">> ->
             Join(With(KExpires, Quoted(KExpires, FormatInt(expires) \o <<"s">>)))
        [] kind = <<"signature not base64">> -> Join(With(KSignature, Quoted(KSignature, NotBase64)))
        [] kind = <<"signature short">> -> Join(With(KSignature, Quoted(KSignature, ShortKey)))
        [] kind = <<"signature of another key">> ->
             Join(With(KSignature, Quoted(KSignature, Base64Encode(otherSig))))
        [] kind = <<"unquoted">> -> Join(With(KAlgorithm, KAlgorithm \o <<"=">> \o AlgEd25519))
        [] kind = <<"rsa, bad fragment">> ->
             Join(<<<<"x">>>> \o With(KAlgorithm, Quoted(KAlgorithm, <<"r", "s", "a">>)))
        [] kind = <<"trailing comma">> -> Join(built) \o <<",">>
        [] kind = <<"padded">> ->
             Join([i \in 1..Len(built) |-> <<" ", "\t">> \o built[i] \o <<"\t", " ">>])
        [] kind = <<"window reversed">> ->
             Join([reversed EXCEPT ![KeyIndex(KSignature)] =
                                     Quoted(KSignature, Base64Encode(reversedSig))])
        [] kind = <<"window reversed, signature kept">> -> Join(reversed)
        [] kind[1] = "drop" ->
             Join(SelectSeq(built, LAMBDA f : f # built[KeyIndex(kind[2])]))
        [] kind[1] = "blank" -> Join(With(kind[2], Quoted(kind[2], <<>>)))

SignTimes == {-1, 0} \cup (T0..(T0 + Span))
ClockTimes == (T0 - 1)..(T0 + Span + 1)

\* ------------------------------------------------------ the state machine

VARIABLES signIn, signOut, verIn, verOut, req, resp

vars == <<signIn, signOut, verIn, verOut, req, resp>>

NoCall == "no call"

NoSignIn == [body |-> <<>>, keyID |-> <<>>, privateKeyBase64 |-> <<>>, created |-> 0, expires |-> 0]
NoVerIn ==
  [body |-> <<>>, digestHeader |-> <<>>, authorizationHeader |-> <<>>, publicKeyBase64 |-> <<>>,
   opts |-> [ExpectedKeyID |-> <<>>, Now |-> <<>>], clock |-> 0, header |-> <<"none">>]
NoReq == [body |-> <<>>, Digest |-> <<>>, Authorization |-> <<>>]
NoResp == [status |-> 0, body |-> NoCall]

Init ==
  /\ signIn = NoSignIn
  /\ signOut = Failed(NoCall)
  /\ verIn = NoVerIn
  /\ verOut = Rejected(NoCall)
  /\ req = NoReq
  /\ resp = NoResp

\* One behaviour is one request: the sender signs, then the receiver verifies or
\* the search receiver answers.  The calls keep no state, so a longer behaviour
\* would only repeat these.
Idle == signOut.err = NoCall /\ verOut.err = NoCall /\ resp.body = NoCall
Sent == verOut.err = NoCall /\ resp.body = NoCall

\* a sender calls BuildSignature; the keyIds with a quote or with spaces go
\* with one payload and one key
Sign ==
  /\ Idle
  /\ \E body \in Bodies, keyID \in KeyIDs, priv \in PrivateKeyTexts,
     created \in SignTimes, expires \in SignTimes :
       /\ keyID \in {KeyIdQuote, KeyIdSpace} => (body = BodyObject /\ priv = SeedTextA)
       /\ signIn' = [body |-> body, keyID |-> keyID, privateKeyBase64 |-> priv,
                     created |-> created, expires |-> expires]
       /\ signOut' = BuildSignature(body, keyID, priv, created, expires)
  /\ UNCHANGED <<verIn, verOut, req, resp>>

\* a receiver calls VerifySignature with the headers the sender built, the
\* payload as sent or another one, some key, and the time injected or read
\* from the clock; the clock and an expected keyId go with the payload as sent
Verify ==
  /\ Sent
  /\ signOut.err = OK
  /\ \E body \in Bodies, key \in PublicKeyTexts, now \in ClockTimes, injected \in BOOLEAN,
        expected \in {<<>>, signIn.keyID} :
       LET opts == [ExpectedKeyID |-> expected, Now |-> IF injected THEN <<now>> ELSE <<>>]
           clock == IF injected THEN 0 ELSE now
       IN  /\ (~injected \/ expected # <<>>) => body = signIn.body
           /\ verIn' = [body |-> body, digestHeader |-> signOut.Digest,
                        authorizationHeader |-> signOut.Authorization,
                        publicKeyBase64 |-> key, opts |-> opts, clock |-> clock,
                        header |-> <<"built">>]
           /\ verOut' = VerifySignature(body, signOut.Digest, signOut.Authorization, key, opts, clock)
  /\ UNCHANGED <<signIn, signOut, req, resp>>

\* the headers reach the receiver changed on the way: the Authorization value
\* is rewritten as `kind` says, the Digest header is kept or dropped
VerifyTampered ==
  /\ Sent
  /\ signOut.err = OK
  /\ signIn.body = BodyObject
  /\ signIn.keyID = KeyIdPlain
  /\ signIn.privateKeyBase64 = SeedTextA
  /\ \E kind \in HeaderKinds, digest \in {signOut.Digest, <<>>}, body \in {signIn.body, <<123>>},
        key \in {PubTextA, <<>>, NotBase64, ShortKey},
        now \in {signIn.created - 1, signIn.created, signIn.expires + 1},
        expected \in {<<>>, KeyIdPlain, KeyIdComma} :
       LET auth == Craft(kind, signIn.keyID, signIn.created, signIn.expires,
                         EncodedSignature(signOut.Authorization))
           opts == [ExpectedKeyID |-> expected, Now |-> <<now>>]
       IN  /\ verIn' = [body |-> body, digestHeader |-> digest, authorizationHeader |-> auth,
                        publicKeyBase64 |-> key, opts |-> opts, clock |-> 0, header |-> kind]
           /\ verOut' = VerifySignature(body, digest, auth, key, opts, 0)
  /\ UNCHANGED <<signIn, signOut, req, resp>>

\* a client posts to /search, with the headers of the signature it built or
\* with none, and handleSearch answers
Post ==
  /\ Sent
  /\ \E signed \in BOOLEAN, body \in Bodies :
       /\ signed => signOut.err = OK /\ body = signIn.body
       /\ req' = [body |-> body,
                  Digest |-> IF signed THEN signOut.Digest ELSE <<>>,
                  Authorization |-> IF signed THEN signOut.Authorization ELSE <<>>]
  /\ resp' = handleSearch(req')
  /\ UNCHANGED <<signIn, signOut, verIn, verOut>>

Next == Sign \/ Verify \/ VerifyTampered \/ Post

Spec == Init /\ [][Next]_vars

\* ------------------------------------------------------------ the claims

SignCalled == signOut.err # NoCall
VerifyCalled == verOut.err # NoCall
Answered == resp.body # NoCall

\* the receiver was given the two headers exactly as BuildSignature returned them
HeadersAsBuilt ==
  /\ signOut.err = OK
  /\ verIn.authorizationHeader = signOut.Authorization
  /\ verIn.digestHeader = signOut.Digest

\* the time VerifySignature compared with the window
NowUsed == NowOf(verIn.opts, verIn.clock)

\* the base64 text of the public key of the private key the sender signed with
MatchingPublicKey ==
  Base64Encode(Public(PrivateKeyFrom(Base64Decode(signIn.privateKeyBase64).bytes).key))

\* the receiver holds the public key of the key pair the sender signed with
KeyMatches == VerifyCalled /\ signOut.err = OK /\ verIn.publicKeyBase64 = MatchingPublicKey

\* C1: for every payload, every non-empty keyId, every window 0 < created <
\* expires and every key pair, VerifySignature given the same payload, the two
\* headers BuildSignature returned, the matching public key and now = created + 1
\* returns no error.
C1_RoundTrip ==
  (VerifyCalled /\ HeadersAsBuilt /\ verIn.body = signIn.body /\ KeyMatches
     /\ NowUsed = signIn.created + 1)
  => verOut.err = OK

\* C2: when the payload given to VerifySignature is not the payload that was
\* signed, and the two headers are the ones BuildSignature returned,
\* VerifySignature fails with the digest mismatch error.
C2_TamperedPayload ==
  (VerifyCalled /\ HeadersAsBuilt /\ verIn.body # signIn.body /\ KeyMatches)
  => verOut.err = "digest mismatch"

\* C3: for the headers BuildSignature returned and the matching key,
\* VerifySignature fails as not yet valid when now < created, succeeds when
\* created <= now <= expires, and fails as expired when now > expires.
C3_Window ==
  (VerifyCalled /\ HeadersAsBuilt /\ verIn.body = signIn.body /\ KeyMatches)
  => /\ NowUsed < signIn.created => verOut.err = "signature not yet valid"
     /\ (signIn.created <= NowUsed /\ NowUsed <= signIn.expires) => verOut.err = OK
     /\ NowUsed > signIn.expires => verOut.err = "signature expired"

\* the rewritings that break the strictness of the parameters: a wrong algorithm,
\* a wrong headers list, a required parameter absent or empty
StrictnessBroken ==
  {<<"rsa">>, <<"other headers">>}
  \cup {<<"drop", Required[i]>> : i \in 1..Len(Required)}
  \cup {<<"blank", Required[i]>> : i \in 1..Len(Required)}

\* the signature parameter of the Authorization value the receiver was given is
\* a valid signature of the sender over the signing string of the request
SignatureIsValid ==
  /\ signOut.err = OK
  /\ Len(verIn.authorizationHeader) > Len(signOut.Authorization) \div 2
  /\ LET sig == Base64Decode(EncodedSignature(verIn.authorizationHeader))
     IN  /\ sig.ok
         /\ Ed25519Verify(Base64Decode(MatchingPublicKey).bytes,
                          Bytes(SigningString(signIn.created, signIn.expires, signOut.Digest)),
                          sig.bytes)

\* C4: VerifySignature never returns success for an Authorization value whose
\* algorithm is not exactly ed25519, whose headers list is not exactly
\* "(created) (expires) digest", or in which one of the six parameters is absent
\* or empty, also when its signature parameter is a valid signature.
C4_ParameterStrictness ==
  (VerifyCalled /\ verOut.err = OK)
  => /\ verIn.header \notin StrictnessBroken
     /\ LET p == parseAuthorization(verIn.authorizationHeader).params
        IN  /\ Get(p, KAlgorithm) = AlgEd25519
            /\ Get(p, KHeaders) = HeadersList
            /\ \A i \in 1..Len(Required) : Get(p, Required[i]) # <<>>

\* C4 witness: a header with algorithm="rsa" carrying the valid signature, with
\* the matching key, the payload as signed and now in the window, is rejected
C4_Witness ==
  /\ VerifyCalled
  /\ verIn.header = <<"rsa">>
  /\ SignatureIsValid
  /\ KeyMatches
  /\ verIn.body = signIn.body
  /\ verIn.digestHeader = signOut.Digest
  /\ signIn.created <= NowUsed /\ NowUsed <= signIn.expires
  /\ verOut.err = "unsupported algorithm"

\* The checks of VerifySignature in the order claim C5 gives them, each with
\* whether the call violates it and the error it stands for.
C5_Checks ==
  LET auth    == verIn.authorizationHeader
      parsed  == parseAuthorization(auth)
      p       == parsed.params
      created == ParseInt(Get(p, KCreated))
      expires == ParseInt(Get(p, KExpires))
      key     == Base64Decode(verIn.publicKeyBase64)
      keyLen  == Len(key.bytes)
      sig     == Base64Decode(Get(p, KSignature))
      msg     == Bytes(SigningString(created.val, expires.val, verIn.digestHeader))
      direct  == IF keyLen = PublicKeySize THEN key.bytes ELSE Public(key.bytes)
      verifies ==
        /\ parsed.err = OK /\ created.ok /\ expires.ok /\ key.ok /\ sig.ok
        /\ keyLen \in {PublicKeySize, PrivateKeySize}
        /\ \/ Ed25519Verify(direct, msg, sig.bytes)
           \/ keyLen = PublicKeySize /\ Ed25519Verify(PublicFromSeed(key.bytes), msg, sig.bytes)
  IN  << <<auth = <<>>, "missing Authorization header">>,
         <<verIn.digestHeader = <<>>, "missing Digest header">>,
         <<verIn.publicKeyBase64 = <<>>, "public key is required for verification">>,
         <<parsed.err # OK, parsed.err>>,
         <<verIn.opts.ExpectedKeyID # <<>> /\ Get(p, KKeyId) # verIn.opts.ExpectedKeyID,
           "unexpected keyId">>,
         <<Get(p, KAlgorithm) # AlgEd25519, "unsupported algorithm">>,
         <<Get(p, KHeaders) # HeadersList, "unexpected headers list">>,
         <<verIn.digestHeader # DigestOf(verIn.body), "digest mismatch">>,
         <<~created.ok, "invalid created timestamp">>,
         <<~expires.ok, "invalid expires timestamp">>,
         <<NowUsed < created.val, "signature not yet valid">>,
         <<NowUsed > expires.val, "signature expired">>,
         <<~key.ok, "decode public key">>,
         <<keyLen \notin {PublicKeySize, PrivateKeySize}, "unexpected public key length">>,
         <<~sig.ok, "decode signature">>,
         <<~verifies, "signature verification failed">> >>

\* the checks that the call violates
C5_Violated == LET checks == C5_Checks IN {i \in 1..Len(checks) : checks[i][1]}

\* the call passes the first n checks
C5_PassesFirst(n) == C5_Violated \cap (1..n) = {}

\* the error of the earliest violated check, OK when there is none
C5_EarliestError ==
  LET checks == C5_Checks
      bad    == {i \in 1..Len(checks) : checks[i][1]}
  IN  IF bad = {} THEN OK
      ELSE checks[CHOOSE i \in bad : \A j \in bad : i <= j][2]

\* every error VerifySignature can return, those of one check on one line
C5_ErrorNames ==
  << "missing Authorization header",
     "missing Digest header",
     "public key is required for verification",
     "unexpected scheme in authorization", "invalid param",
     MissingError(KKeyId), MissingError(KAlgorithm), MissingError(KCreated),
     MissingError(KExpires), MissingError(KHeaders), MissingError(KSignature),
     "unexpected keyId",
     "unsupported algorithm",
     "unexpected headers list",
     "digest mismatch",
     "invalid created timestamp", "invalid expires timestamp",
     "signature not yet valid",
     "signature expired",
     "decode public key", "unexpected public key length",
     "decode signature",
     "signature verification failed" >>

\* C5: VerifySignature returns the error of the earliest check, in the order of
\* the claim, that the call violates, no error when it violates none, and the
\* errors of the checks are all different.
C5_ErrorPrecedence ==
  VerifyCalled
  => /\ verOut.err = C5_EarliestError
     /\ verOut.err \in {OK} \cup {C5_ErrorNames[i] : i \in 1..Len(C5_ErrorNames)}
     /\ Cardinality({C5_ErrorNames[i] : i \in 1..Len(C5_ErrorNames)}) = Len(C5_ErrorNames)

\* C5 witness: a call that violates four checks at once (algorithm, digest,
\* window, key) gets the error of the earliest of them
C5_Witness ==
  /\ VerifyCalled
  /\ {6, 8, 12, 13} \subseteq C5_Violated
  /\ C5_PassesFirst(5)
  /\ verOut.err = "unsupported algorithm"

\* the call passed the checks before the digest comparison and the digest
\* recomputed from the payload differs from the Digest header received
DigestDiffers ==
  /\ VerifyCalled
  /\ C5_PassesFirst(7)
  /\ verIn.digestHeader # DigestOf(verIn.body)

\* C6 as claimed: on a digest mismatch VerifySignature still validates the
\* signature over the signing string built from the received Digest header,
\* and reports the mismatch.
C6_StillVerifies ==
  DigestDiffers
  => /\ verOut.err = "digest mismatch"
     /\ verOut.direct # "skipped"

\* C6 as the code has it: on a digest mismatch VerifySignature returns the
\* digest mismatch error at once: no signing string is built and ed25519.Verify is
\* not called; a signing string is built only from a Digest header that equals
\* the recomputed digest.
C6_ShortCircuit ==
  /\ DigestDiffers
     => /\ verOut.err = "digest mismatch"
        /\ verOut.signingString = <<>>
        /\ verOut.direct = "skipped" /\ verOut.seed = "skipped"
  /\ (VerifyCalled /\ verOut.signingString # <<>>)
     => /\ verIn.digestHeader = DigestOf(verIn.body)
        /\ HasPrefix(verOut.signingString, <<"(", "c", "r", "e", "a", "t", "e", "d", ")", ":", " ">>)
        /\ SubSeq(verOut.signingString, Len(verOut.signingString) - Len(verIn.digestHeader) + 1,
                  Len(verOut.signingString)) = verIn.digestHeader

\* C6 witness: a changed payload under the valid signature of the payload signed
C6_Witness ==
  /\ DigestDiffers
  /\ HeadersAsBuilt
  /\ KeyMatches
  /\ signIn.created <= NowUsed /\ NowUsed <= signIn.expires
  /\ verOut.err = "digest mismatch"

\* C7: once the earlier checks have passed, VerifySignature succeeds exactly
\* when the signature verifies under the key as given, or the key is 32 bytes,
\* that failed, and the signature verifies under the key derived from them as a
\* seed; the seed is never tried for a 64-byte key nor before the key as given
\* has failed; a 32-byte key matching neither way gets the generic error.
C7_SeedRetry ==
  (VerifyCalled /\ C5_PassesFirst(15))
  => LET p        == parseAuthorization(verIn.authorizationHeader).params
         bytes    == Base64Decode(verIn.publicKeyBase64).bytes
         sig      == Base64Decode(Get(p, KSignature)).bytes
         msg      == Bytes(SigningString(ParseInt(Get(p, KCreated)).val,
                                         ParseInt(Get(p, KExpires)).val, verIn.digestHeader))
         asGiven  == Ed25519Verify(IF Len(bytes) = PublicKeySize THEN bytes ELSE Public(bytes),
                                   msg, sig)
         asSeed   == Ed25519Verify(PublicFromSeed(bytes), msg, sig)
     IN  /\ verOut.err = OK
            <=> (asGiven \/ (Len(bytes) = PublicKeySize /\ ~asGiven /\ asSeed))
         /\ verOut.direct = IF asGiven THEN "ok" ELSE "failed"
         /\ Len(bytes) = PrivateKeySize => verOut.seed = "skipped"
         /\ verOut.seed # "skipped" => verOut.direct = "failed"
         /\ (Len(bytes) = PublicKeySize /\ ~asGiven)
            => verOut.seed = IF asSeed THEN "ok" ELSE "failed"
         /\ (Len(bytes) = PublicKeySize /\ ~asGiven /\ ~asSeed)
            => verOut.err = "signature verification failed"

\* C7 witness: the 32 bytes of the seed given as the public key fail as a public
\* key and verify as a seed
C7_Witness ==
  /\ VerifyCalled
  /\ C5_PassesFirst(15)
  /\ verIn.publicKeyBase64 = signIn.privateKeyBase64
  /\ Len(Base64Decode(verIn.publicKeyBase64).bytes) = SeedSize
  /\ verOut.direct = "failed"
  /\ verOut.seed = "ok"
  /\ verOut.err = OK

\* the window given to BuildSignature violates created > 0, expires > 0 or
\* expires > created
WindowInvalid == signIn.created <= 0 \/ signIn.expires <= 0 \/ signIn.expires <= signIn.created

TimingError == "created and expires must be positive with expires > created"

\* C8 as claimed: with a window that is not valid, BuildSignature fails with the
\* invalid timing error for every payload, every keyId and every private key text.
C8_AlwaysTimingError ==
  (SignCalled /\ WindowInvalid) => signOut.err = TimingError

\* C8 as the code has it: with a window that is not valid, BuildSignature fails
\* for every payload, keyId and private key text; the error is the invalid
\* timing error for every non-empty keyId, and the keyID-required error, which
\* is checked first, for the empty keyId.
C8_BadTiming ==
  (SignCalled /\ WindowInvalid)
  => signOut.err = IF signIn.keyID = <<>> THEN "keyID is required for signature"
                   ELSE TimingError

\* C8 witness: created = 0 and expires = 0 with an empty private key text
C8_Witness ==
  /\ SignCalled
  /\ signIn.created = 0 /\ signIn.expires = 0
  /\ signIn.keyID # <<>>
  /\ signIn.privateKeyBase64 = <<>>
  /\ signOut.err = TimingError

\* C9: handleSearch answers {"status":"ack"} only to a request whose Digest and
\* Authorization headers are present and verify, under some key and at some
\* time of the model.
C9_AckOnlyIfVerified ==
  (Answered /\ resp.status = StatusOK)
  => /\ req.Digest # <<>>
     /\ req.Authorization # <<>>
     /\ \E key \in PublicKeyTexts, now \in ClockTimes :
          VerifySignature(req.body, req.Digest, req.Authorization, key,
                          [ExpectedKeyID |-> <<>>, Now |-> <<now>>], 0).err = OK

\* the signature parameter at the end of authorization verifies under the key
\* pub over the signing string of the window and the digest
SignatureVerifies(authorization, pub, created, expires, digest) ==
  LET sig == Base64Decode(EncodedSignature(authorization))
  IN  sig.ok /\ Ed25519Verify(pub, Bytes(SigningString(created, expires, digest)), sig.bytes)

\* C10: with the same payload, keyId and window, a 32-byte seed and the 64-byte
\* private key expanded from it give the same Digest and Authorization values
\* whose signatures verify under the public key derived from the seed; a key
\* text that decodes to another length fails with the unexpected length error.
\* (Stated of the calls that pass the checks of keyId and window, in the state
\* BuildSignature returns to.)
C10_KeyShape ==
  (SignCalled /\ Sent /\ signIn.keyID # <<>> /\ ~WindowInvalid
     /\ Base64Decode(signIn.privateKeyBase64).ok)
  => LET bytes    == Base64Decode(signIn.privateKeyBase64).bytes
         seed     == SubSeq(bytes, 1, SeedSize)
         expanded == NewKeyFromSeed(seed)
         pub      == PublicFromSeed(seed)
         twin     == BuildSignature(signIn.body, signIn.keyID,
                                    Base64Encode(IF Len(bytes) = SeedSize THEN expanded ELSE seed),
                                    signIn.created, signIn.expires)
     IN  /\ (Len(bytes) = SeedSize \/ (Len(bytes) = PrivateKeySize /\ bytes = expanded))
            => /\ signOut.err = OK /\ twin.err = OK
               /\ twin.Digest = signOut.Digest
               /\ SignatureVerifies(signOut.Authorization, pub, signIn.created, signIn.expires,
                                    signOut.Digest)
               /\ SignatureVerifies(twin.Authorization, pub, signIn.created, signIn.expires,
                                    twin.Digest)
         /\ Len(bytes) \notin {SeedSize, PrivateKeySize}
            => signOut.err = "unexpected private key length"

\* C10 witness: BuildSignature has signed with the 64-byte private key
C10_Witness ==
  /\ SignCalled /\ Sent
  /\ signIn.privateKeyBase64 = PrivTextA
  /\ signOut.err = OK
  /\ signOut.Authorization =
       BuildSignature(signIn.body, signIn.keyID, SeedTextA, signIn.created, signIn.expires).Authorization

\* the text s holds the character c
Contains(s, c) == \E i \in 1..Len(s) : s[i] = c

\* the Authorization value received does not begin with "Signature "
C11_NoScheme ==
  \/ Len(verIn.authorizationHeader) < Len(SignaturePrefix)
  \/ SubSeq(verIn.authorizationHeader, 1, Len(SignaturePrefix)) # SignaturePrefix

\* the comma-separated fragments of the remainder, whitespace trimmed
C11_Fragments ==
  LET parts == Split(SubSeq(verIn.authorizationHeader, Len(SignaturePrefix) + 1,
                            Len(verIn.authorizationHeader)), ",")
  IN  [i \in 1..Len(parts) |-> TrimSpace(parts[i])]

\* a fragment has no "=" to split on
C11_BadFragment == \E i \in 1..Len(C11_Fragments) : ~Contains(C11_Fragments[i], "=")

\* the Authorization value, the Digest header and the public key text are present
C11_Present ==
  /\ verIn.authorizationHeader # <<>>
  /\ verIn.digestHeader # <<>>
  /\ verIn.publicKeyBase64 # <<>>

\* C11: once the Authorization value, the Digest header and the public key text
\* are present, VerifySignature fails with a grammar error of the header, whatever
\* the keyId, algorithm, headers list, digest and time, when the Authorization
\* value does not begin with "Signature " or a fragment of the remainder, trimmed,
\* does not split in two on its first "="; what follows the first "=" of a
\* fragment, further "=" included, is the value of the parameter, quotes stripped.
C11_Grammar ==
  (VerifyCalled /\ C11_Present)
  => /\ C11_NoScheme => verOut.err = "unexpected scheme in authorization"
     /\ (~C11_NoScheme /\ C11_BadFragment) => verOut.err = "invalid param"
     /\ parseAuthorization(verIn.authorizationHeader).err = OK
        => LET p == parseAuthorization(verIn.authorizationHeader).params
               f == C11_Fragments
               Eq(i)    == CHOOSE k \in 1..Len(f[i]) :
                             f[i][k] = "=" /\ \A j \in 1..(k - 1) : f[i][j] # "="
               Key(i)   == SubSeq(f[i], 1, Eq(i) - 1)
               Value(i) == SubSeq(f[i], Eq(i) + 1, Len(f[i]))
           IN  /\ ~C11_NoScheme /\ ~C11_BadFragment
               /\ DOMAIN p = {Key(i) : i \in 1..Len(f)}
               /\ \A i \in 1..Len(f) :
                    (\A j \in (i + 1)..Len(f) : Key(j) # Key(i))
                    => p[Key(i)] = Trim(Value(i), {"\""})

\* C11 witness: a value with a fragment without "=" that also names another
\* algorithm, given with another expected keyId, a changed payload and a time
\* after the window, is rejected as an invalid parameter
C11_Witness ==
  /\ VerifyCalled
  /\ C11_Present
  /\ verIn.header = <<"rsa, bad fragment">>
  /\ verIn.opts.ExpectedKeyID = KeyIdComma
  /\ verIn.digestHeader # DigestOf(verIn.body)
  /\ NowUsed > signIn.expires
  /\ verOut.err = "invalid param"

\* the six parameters parseAuthorization requires, as a set
RequiredKeys == {Required[i] : i \in 1..Len(Required)}

\* C12: for every keyId BuildSignature accepts, the Authorization value it
\* returns parses to exactly six parameters whose keyId is the keyId given, and
\* VerifySignature with that keyId expected, the payload as signed, the matching
\* key and created <= now <= expires returns no error.
C12_KeyIdRoundTrip ==
  /\ (SignCalled /\ signOut.err = OK)
     => LET parsed == parseAuthorization(signOut.Authorization)
        IN  /\ parsed.err = OK
            /\ DOMAIN parsed.params = RequiredKeys
            /\ Get(parsed.params, KKeyId) = signIn.keyID
  /\ (VerifyCalled /\ HeadersAsBuilt /\ verIn.body = signIn.body /\ KeyMatches
        /\ verIn.opts.ExpectedKeyID = signIn.keyID
        /\ signIn.created <= NowUsed /\ NowUsed <= signIn.expires)
     => verOut.err = OK

\* the Authorization value received parses, created and expires are integers,
\* and expires is smaller than created
C13_Reversed ==
  LET parsed  == parseAuthorization(verIn.authorizationHeader)
      created == ParseInt(Get(parsed.params, KCreated))
      expires == ParseInt(Get(parsed.params, KExpires))
  IN  parsed.err = OK /\ created.ok /\ expires.ok /\ expires.val < created.val

\* C13: VerifySignature never returns success for an Authorization value whose
\* expires is smaller than its created, whatever the time, the key and the
\* signature; a call that passes the checks before the window gets the
\* not-yet-valid error or the expired error.
C13_ReversedWindow ==
  (VerifyCalled /\ C13_Reversed)
  => /\ verOut.err # OK
     /\ C5_PassesFirst(10)
        => verOut.err = IF NowUsed < ParseInt(Get(parseAuthorization(verIn.authorizationHeader).params,
                                                  KCreated)).val
                        THEN "signature not yet valid" ELSE "signature expired"

\* C13 witness: created and expires exchanged, under a signature of the sender
\* that is valid for the exchanged window, with the matching key and the payload
\* as signed, at a time on or after created: rejected as expired
C13_Witness ==
  /\ VerifyCalled
  /\ C13_Reversed
  /\ verIn.header = <<"window reversed">>
  /\ KeyMatches
  /\ verIn.digestHeader = DigestOf(verIn.body)
  /\ Ed25519Verify(Base64Decode(MatchingPublicKey).bytes,
                   Bytes(SigningString(signIn.expires, signIn.created, verIn.digestHeader)),
                   Base64Decode(EncodedSignature(verIn.authorizationHeader)).bytes)
  /\ NowUsed >= signIn.expires
  /\ verOut.err = "signature expired"

====
